---- MODULE Spec2Model ----
(***************************************************************************)
(* arrpc-rs: a local IPC server (src/ipc/server.rs) whose session handlers *)
(* forward decoded messages to a normalizer task (src/server.rs), the main *)
(* loop (src/main.rs) that publishes the normalized activities, and the    *)
(* websocket bridge (src/bridge.rs) that fans them out to subscribers.     *)
(*                                                                         *)
(* Option<T> is modelled as a sequence of length 0 (None) or 1 (Some).     *)
(***************************************************************************)
EXTENDS Integers, Sequences, FiniteSets, TLC

\* ---------------------------------------------------------------- bounds

\* Local IPC connections the accept loop takes.
MaxSessions == 2
\* Inbound messages decoded over all sessions together.
MaxMsgs == 3
\* Web clients the bridge's accept loop takes.
MaxSubs == 2
\* send_activity calls made directly on the BridgeServer.
MaxPubs == 2
\* Buttons in the activity handed to to_full_message.
MaxButtons == 3
\* Commands on the sessions' channels, over all sessions together, up to
\* which a direct IpcServer::send call is made.
MaxCmds == 2

\* ------------------------------------------------------- program constants

\* mpsc::channel(1) of (socket_id, IpcMessage) events.
MsgCap == 1
\* mpsc::channel(1) of IpcActivityMessage.
ActCap == 1
\* broadcast::channel(1) of IpcCommand, one per session.
CmdCap == 1
\* The only handshake version accepted.
HandshakeVersion == 1

\* The candidate indices of IpcServer::try_bind: for i in 0u8..10.
BindCandidates == 10
BindIndices == 0 .. (BindCandidates - 1)

None == <<>>
Some(x) == <<x>>

SessionIds == 0 .. (MaxSessions - 1)
\* socket_id.to_string(): the keys of the activity map.
SessionKeys == { ToString(s) : s \in SessionIds }
\* Subscriber addresses, in accept order.
Addrs == 0 .. (MaxSubs - 1)

\* ------------------------------------------------------------ wire messages

\* CloseCodes
Normal == "Normal"
InvalidClientID == "InvalidClientID"
InvalidVersion == "InvalidVersion"

Handshake(v, c) == [kind |-> "Handshake", version |-> v, client_id |-> c]
Frame(cmd, evt, nonce, args, data) ==
    [kind |-> "Frame", cmd |-> cmd, evt |-> evt, nonce |-> nonce,
     args |-> args, data |-> data]
Close(code) == [kind |-> "Close", code |-> code, message |-> ""]
Ping(d) == [kind |-> "Ping", data |-> d]
Pong(d) == [kind |-> "Pong", data |-> d]

\* IpcPartialActivity values a client sends (state, instance, buttons).
PartialActivities ==
    { [state |-> "s", details |-> "d", instance |-> TRUE, buttons |-> <<>>] }

FrameArgs(a, pid) == [activity |-> a, pid |-> pid]

\* What a client may put on a session's stream.
ClientHandshakes ==
    { Handshake(1, "a"), Handshake(1, "b"), Handshake(1, ""),
      Handshake(2, "a"), Handshake(2, "") }
ClientFrames ==
    { Frame("SET_ACTIVITY", None, "n1", Some(FrameArgs(a, 42)), None) :
        a \in PartialActivities }
    \cup { Frame("SET_ACTIVITY", None, "n2", None, None) }
    \cup { Frame("SET_ACTIVITY", None, "n3", Some(FrameArgs(a, 43)), None) :
             a \in PartialActivities }

\* IpcCommand
CmdFrame(f) == [cmd |-> "Frame", frame |-> f]
CmdClose == [cmd |-> "Close"]

\* IpcCommand::try_encode: the message a command puts on the wire.
CommandEncode(c) == IF c.cmd = "Frame" THEN c.frame ELSE Close(Normal)

\* The READY dispatch the normalizer sends after a handshake.
ReadyFrame == Frame("DISPATCH", Some("READY"), "", None, Some("ready"))

\* ------------------------------------------------------------------- state

VARIABLES
    SOCKET_ID,        \* the AtomicUsize session counter
    ipc_client_map,   \* ids with a broadcast sender registered
    hpc,              \* per session: where its handle_stream task is
    handshake_done,   \* per session: handle_stream's local flag
    inb,              \* per session: the messages decoded so far
    nmsgs,            \* messages decoded so far, over all sessions
    out,              \* per session: the frames written to the connection
    pending,          \* per session: the event its tx.send is sending
    sent,             \* per session: the events delivered to the event channel
    cmdq,             \* per session: the broadcast channel of commands
    msgq,             \* the event channel (tx_msg / rx_msg)
    npc,              \* where the normalizer task of Server::try_bind is
    client_id,        \* the normalizer task's client_id
    npending,         \* the activity message the normalizer is sending
    actq,             \* the activity channel (tx / rx of Server::try_bind)
    mpc,              \* where main's loop is
    mpending,         \* the activity send_activity is publishing
    activity_map,     \* BridgeServer.activity_map
    client_map,       \* BridgeServer.client_map: registered subscriber addrs
    amlock,           \* holder of the activity_map mutex
    spc,              \* per subscriber: where its handle_stream task is
    queue,            \* per subscriber: its unbounded command channel
    wire,             \* per subscriber: the text messages written to its
                      \* connection, while the connection is there
    todo,             \* per subscriber: snapshot keys its catch-up has left
    snap,             \* per subscriber: the snapshot its catch-up locked
    regAt,            \* per subscriber: the send_activity calls made before
                      \* its registration
    pubs,             \* the updates of the send_activity calls made so far
    bind_env,         \* per candidate index: what UnixListener::bind answers
    bind_i,           \* IpcServer::try_bind: the loop variable i
    bind_res,         \* IpcServer::try_bind: where the loop is or how it ended
    enc_msg,          \* the IpcMessage handed to try_encode
    buffer,           \* the bytes on the stream: those try_encode returned,
                      \* or those a client wrote
    dec_msg,          \* what try_decode returned for those bytes
    tfm_partial,      \* the IpcPartialActivity handed to to_full_message
    tfm_full,         \* the IpcActivityMessage to_full_message returned
    relayed,          \* per session: the commands IpcServer::send has put on
                      \* its broadcast channel
    hdr,              \* per session: the try_decode of this select! round has
                      \* read a header and waits for the payload
    discarded         \* per session: a header that was read has been dropped
                      \* with its try_decode future

ipcVars == <<SOCKET_ID, ipc_client_map, hpc, handshake_done, inb, nmsgs, out,
             pending, sent, cmdq, msgq, npc, client_id, npending, actq>>
mainVars == <<mpc, mpending, pubs>>
bridgeVars == <<activity_map, client_map, amlock, spc, queue, wire, todo, snap,
               regAt>>
bindVars == <<bind_env, bind_i, bind_res>>
codecVars == <<enc_msg, buffer, dec_msg>>
normVars == <<tfm_partial, tfm_full>>
sessVars == <<relayed, hdr, discarded>>
harnessVars == <<bindVars, codecVars, normVars>>
auxVars == <<harnessVars, sessVars>>
vars == <<ipcVars, mainVars, bridgeVars, auxVars>>


\* ------------------------------------------------------------------ helpers

\* main has not returned: the runtime and every task are still there.
\* ("shutdown": bridge.close() has returned and main is about to return.)
ProcessAlive == mpc \in {"recv", "insert", "fanout", "shutdown"}

\* The handle_stream task of session s has not returned (its broadcast
\* receiver and its clone of tx_msg are alive).
HandlerRunning(s) == hpc[s] \in {"select", "fwd"}
HandlerEnded(s) ==
    hpc[s] \in {"closed_ok", "err_proto", "err_chan", "panicked"}

\* The normalizer task owns the IpcServer, hence rx_msg, and tx of actq.
NormalizerAlive == npc \in {"recv", "send"}

\* ----------------------------------------------- IpcServer::try_bind (ipc)

\* What UnixListener::bind may answer: Ok, Err of kind AddrInUse, any other Err.
BindOutcomes == {"Ok", "AddrInUse", "Other"}

\* Mutant: every bind error is taken for address-in-use.
OnBind_AnyErrContinues(kind) ==
    IF kind = "Ok" THEN "bound" ELSE "continue"

\* The match on the bind result.
OnBind(kind) ==
    IF kind = "Ok" THEN "bound"
    ELSE IF kind = "AddrInUse" THEN "continue"
    ELSE "fatal"

\* One iteration of `for i in 0u8..10`.
BindTry ==
    /\ bind_res = "probing"
    /\ bind_i < BindCandidates
    /\ LET v == OnBind(bind_env[bind_i]) IN
       IF v = "continue"
       THEN /\ bind_i' = bind_i + 1
            /\ UNCHANGED bind_res
       ELSE /\ bind_res' = v
            /\ UNCHANGED bind_i
    /\ UNCHANGED <<bind_env, codecVars, normVars>>
    /\ UNCHANGED <<ipcVars, mainVars, bridgeVars, sessVars>>

\* The loop is over: Err("Failed to bind to IPC server (ran out of paths)").
BindRanOut ==
    /\ bind_res = "probing"
    /\ bind_i = BindCandidates
    /\ bind_res' = "exhausted"
    /\ UNCHANGED <<bind_env, bind_i, codecVars, normVars>>
    /\ UNCHANGED <<ipcVars, mainVars, bridgeVars, sessVars>>

\* ------------------------------------------- IpcServer::accept_loop (ipc)

\* Mutant: an iteration without SOCKET_ID.fetch_add(1).
IpcAccept_NoFetchAdd ==
    /\ ProcessAlive
    /\ SOCKET_ID < MaxSessions
    /\ ipc_client_map' = ipc_client_map \cup {SOCKET_ID}
    /\ hpc' = [hpc EXCEPT ![SOCKET_ID] = "select"]
    /\ UNCHANGED <<SOCKET_ID, handshake_done, inb, nmsgs, out, pending, sent,
                   cmdq, msgq, npc, client_id, npending, actq, mainVars,
                   bridgeVars>>
    /\ UNCHANGED auxVars

\* One iteration: the session gets the counter's value as its id, its sender
\* is registered under that id, its handler is spawned, the counter goes up.
IpcAccept ==
    /\ ProcessAlive
    /\ SOCKET_ID < MaxSessions
    /\ ipc_client_map' = ipc_client_map \cup {SOCKET_ID}
    /\ hpc' = [hpc EXCEPT ![SOCKET_ID] = "select"]
    /\ SOCKET_ID' = SOCKET_ID + 1
    /\ UNCHANGED <<handshake_done, inb, nmsgs, out, pending, sent, cmdq, msgq, npc,
                   client_id, npending, actq, mainVars, bridgeVars>>
    /\ UNCHANGED auxVars

\* ------------------------------------------ IpcServer::handle_stream (ipc)

\* The select! loop is at its top and another message may be decoded.
CanDecode(s) ==
    /\ ProcessAlive
    /\ hpc[s] = "select"
    /\ nmsgs < MaxMsgs

\* Where the loop is once event ev has been sent: a forwarded Close breaks it.
AfterForward(ev) == IF ev.kind = "Close" THEN "closed_ok" ELSE "select"

\* The effect of one decoded message m on session s: frames w written, the
\* flag hd, and then either the task at pc with nothing to send (ev = None),
\* or tx.send(ev).await?, which fails at once when rx_msg is dropped,
\* completes at once when the event channel has room, and waits otherwise.
HandlerStep(s, m, w, ev, hd, pc) ==
    /\ inb' = [inb EXCEPT ![s] = Append(@, m)]
    /\ nmsgs' = nmsgs + 1
    /\ out' = [out EXCEPT ![s] = @ \o w]
    /\ handshake_done' = [handshake_done EXCEPT ![s] = hd]
    /\ IF ev = None THEN
           /\ hpc' = [hpc EXCEPT ![s] = pc]
           /\ UNCHANGED <<pending, msgq, sent>>
       ELSE IF ~NormalizerAlive THEN
           /\ hpc' = [hpc EXCEPT ![s] = "err_chan"]
           /\ UNCHANGED <<pending, msgq, sent>>
       ELSE IF Len(msgq) < MsgCap THEN
           /\ msgq' = Append(msgq, [sid |-> s, msg |-> ev[1]])
           /\ sent' = [sent EXCEPT ![s] = Append(@, ev[1])]
           /\ hpc' = [hpc EXCEPT ![s] = AfterForward(ev[1])]
           /\ UNCHANGED pending
       ELSE
           /\ pending' = [pending EXCEPT ![s] = ev]
           /\ hpc' = [hpc EXCEPT ![s] = "fwd"]
           /\ UNCHANGED <<msgq, sent>>
    /\ hdr' = [hdr EXCEPT ![s] = FALSE]
    /\ UNCHANGED <<SOCKET_ID, ipc_client_map, cmdq, npc, client_id, npending,
                   actq, mainVars, bridgeVars>>
    /\ UNCHANGED <<harnessVars, relayed, discarded>>

\* Mutant: the client id is checked before the version.
HandshakeVerdict_ClientFirst(done, m) ==
    IF done THEN "twice"
    ELSE IF m.client_id = "" THEN "bad_client"
    ELSE IF m.version # HandshakeVersion THEN "bad_version"
    ELSE "ok"

\* Mutant: a repeated handshake is not rejected.
HandshakeVerdict_NoTwice(done, m) ==
    IF m.version # HandshakeVersion THEN "bad_version"
    ELSE IF m.client_id = "" THEN "bad_client"
    ELSE "ok"

\* The checks of the Handshake arm, in the code's order.
HandshakeVerdict(done, m) ==
    IF done THEN "twice"
    ELSE IF m.version # HandshakeVersion THEN "bad_version"
    ELSE IF m.client_id = "" THEN "bad_client"
    ELSE "ok"

OnHandshake(s) ==
    /\ CanDecode(s)
    /\ \E m \in ClientHandshakes :
        LET v == HandshakeVerdict(handshake_done[s], m) IN
        IF v = "twice" THEN
            HandlerStep(s, m, <<>>, None, handshake_done[s], "err_proto")
        ELSE IF v = "bad_version" THEN
            HandlerStep(s, m, <<Close(InvalidVersion)>>, None,
                        handshake_done[s], "err_proto")
        ELSE IF v = "bad_client" THEN
            HandlerStep(s, m, <<Close(InvalidClientID)>>, None,
                        handshake_done[s], "err_proto")
        ELSE
            HandlerStep(s, m, <<>>, Some(m), TRUE, "fwd")

\* The payloads of the Pings a client sends.
PingPayloads == {"p", "q"}

OnPing(s) ==
    /\ CanDecode(s)
    /\ \E d \in PingPayloads :
        LET m == Ping(d) IN
        HandlerStep(s, m, <<Pong(m.data)>>, Some(m), handshake_done[s], "fwd")

OnPong(s) ==
    /\ CanDecode(s)
    /\ LET m == Pong("p") IN
       HandlerStep(s, m, <<>>, Some(m), handshake_done[s], "fwd")

\* Mutant: the Frame arm without its guard.
FrameAccepted_Always(done) == TRUE

\* The guard of the Frame arm: a frame is handled only after the handshake.
FrameAccepted(done) == done

\* The acknowledgement written for an accepted frame.
AckFrame(m) == Frame("SET_ACTIVITY", None, m.nonce, None, None)

OnFrame(s) ==
    /\ CanDecode(s)
    /\ \E m \in ClientFrames :
        IF ~FrameAccepted(handshake_done[s]) THEN
            HandlerStep(s, m, <<>>, None, handshake_done[s], "err_proto")
        ELSE
            HandlerStep(s, m, <<AckFrame(m)>>, Some(m), handshake_done[s], "fwd")

OnClose(s) ==
    /\ CanDecode(s)
    /\ LET m == Close(Normal) IN
       HandlerStep(s, m, <<>>, Some(m), handshake_done[s], "fwd")

\* try_decode returned Err: `if let Ok(event)` is skipped and the loop goes on.
DecodeErr == [kind |-> "DecodeErr"]

OnDecodeErr(s) ==
    /\ CanDecode(s)
    /\ HandlerStep(s, DecodeErr, <<>>, None, handshake_done[s], "select")

\* The peer has closed the connection: read_buf reads nothing and
\* get_i32_le panics on the empty header buffer, which ends the task.
OnEof(s) ==
    /\ ProcessAlive
    /\ hpc[s] = "select"
    /\ ~hdr[s]
    /\ hpc' = [hpc EXCEPT ![s] = "panicked"]
    /\ UNCHANGED <<SOCKET_ID, ipc_client_map, handshake_done, inb, nmsgs, out,
                   pending, sent, cmdq, msgq, npc, client_id, npending, actq,
                   mainVars, bridgeVars>>
    /\ UNCHANGED auxVars

\* A waiting tx.send((socket_id, event)).await? ends: the event channel has
\* room again, or rx_msg has been dropped and the send fails.
Forward(s) ==
    /\ ProcessAlive
    /\ hpc[s] = "fwd"
    /\ IF ~NormalizerAlive THEN
           /\ hpc' = [hpc EXCEPT ![s] = "err_chan"]
           /\ UNCHANGED <<msgq, sent>>
       ELSE
           /\ Len(msgq) < MsgCap
           /\ msgq' = Append(msgq, [sid |-> s, msg |-> pending[s][1]])
           /\ sent' = [sent EXCEPT ![s] = Append(@, pending[s][1])]
           /\ hpc' = [hpc EXCEPT ![s] = AfterForward(pending[s][1])]
    /\ pending' = [pending EXCEPT ![s] = None]
    /\ UNCHANGED <<SOCKET_ID, ipc_client_map, handshake_done, inb, nmsgs, out, cmdq,
                   npc, client_id, npending, actq, mainVars, bridgeVars>>
    /\ UNCHANGED auxVars

\* try_decode has read the 8 bytes of a header; the payload is not there
\* yet and the future waits in its second read_buf.
ReadHeader(s) ==
    /\ CanDecode(s)
    /\ ~hdr[s]
    /\ hdr' = [hdr EXCEPT ![s] = TRUE]
    /\ UNCHANGED <<ipcVars, mainVars, bridgeVars, harnessVars, relayed,
                   discarded>>

\* The rx.recv() arm: select! drops the try_decode future of this round,
\* and with it a header the future has read.  An Ok command is encoded and
\* written, and Close ends the loop; Err(Lagged) is skipped by `if let Ok`.
OnCommand(s) ==
    /\ ProcessAlive
    /\ hpc[s] = "select"
    /\ cmdq[s] # <<>>
    /\ LET c == Head(cmdq[s]) IN
        /\ out' = [out EXCEPT ![s] =
                     IF c.cmd = "Lagged" THEN @
                     ELSE Append(@, CommandEncode(c))]
        /\ hpc' = [hpc EXCEPT ![s] =
                     IF c.cmd = "Close" THEN "closed_ok" ELSE "select"]
    /\ cmdq' = [cmdq EXCEPT ![s] = Tail(@)]
    /\ hdr' = [hdr EXCEPT ![s] = FALSE]
    /\ discarded' = [discarded EXCEPT ![s] = @ \/ hdr[s]]
    /\ UNCHANGED <<SOCKET_ID, ipc_client_map, handshake_done, inb, nmsgs, pending,
                   sent, msgq, npc, client_id, npending, actq, mainVars,
                   bridgeVars>>
    /\ UNCHANGED <<harnessVars, relayed>>


\* ------------------------- IpcPartialActivityMessage::to_full_message

\* Mutant: the collected fields in reverse order.
MapSeq_Reversed(sq, field) ==
    [i \in 1 .. Len(sq) |-> sq[Len(sq) + 1 - i][field]]

RECURSIVE MapSeq(_, _)
\* seq.iter().map(field).collect()
MapSeq(sq, field) ==
    IF sq = <<>> THEN <<>>
    ELSE <<Head(sq)[field]>> \o MapSeq(Tail(sq), field)

\* client_id.clone().unwrap_or_default()
ApplicationId(cid) == IF cid = None THEN "" ELSE cid[1]

ToFullMessage(partial, pid, socket_id, cid) ==
    [activity |->
        IF partial # None THEN
            Some([application_id |-> ApplicationId(cid),
                  state |-> partial[1].state,
                  details |-> partial[1].details,
                  flags |-> IF partial[1].instance THEN 1 ELSE 0,
                  type |-> 0,
                  buttons |-> MapSeq(partial[1].buttons, "label"),
                  metadata |->
                      [button_urls |-> MapSeq(partial[1].buttons, "url")],
                  instance |-> partial[1].instance])
        ELSE None,
     socket_id |-> socket_id,
     pid |-> pid]

\* Button values, and the IpcPartialActivity values handed to a direct call.
Buttons == { [label |-> l, url |-> u] : l \in {"l1", "l2"}, u \in {"u1", "u2"} }
ButtonLists == UNION { [1 .. n -> Buttons] : n \in 0 .. MaxButtons }
ButtonActivities ==
    { [state |-> "s", details |-> "d", instance |-> FALSE, buttons |-> bs] :
        bs \in ButtonLists }

\* to_full_message is applied to the activity.
ToFull ==
    /\ tfm_partial # None
    /\ tfm_full = None
    /\ tfm_full' = Some(ToFullMessage(tfm_partial, 42, "0", Some("a")))
    /\ UNCHANGED <<tfm_partial, bindVars, codecVars>>
    /\ UNCHANGED <<ipcVars, mainVars, bridgeVars, sessVars>>

\* -------------------------------------- the task of Server::try_bind

\* What rx.recv() yields once for the values its receiver has missed.
Lagged == [cmd |-> "Lagged"]
Held(x) == x.cmd # "Lagged"

\* broadcast::Sender::send on a capacity-CmdCap channel: a full channel
\* drops its oldest value, and the receiver that has not seen it gets
\* Err(Lagged) from its next recv, before the values still held.
BroadcastSend(q, c) ==
    IF Len(SelectSeq(q, Held)) < CmdCap THEN Append(q, c)
    ELSE <<Lagged>> \o Tail(SelectSeq(q, Held)) \o <<c>>

\* ipc.recv() yields (socket_id, msg).  A Frame with args is normalized with
\* the task's one client_id and handed to tx.send; a Handshake replaces
\* client_id and sends READY through IpcServer::send, whose Err (no receiver
\* left on the session's broadcast channel) the task unwraps: it panics, and
\* the IpcServer (rx_msg) and tx are dropped with it.
NormRecv ==
    /\ ProcessAlive
    /\ npc = "recv"
    /\ msgq # <<>>
    /\ LET sid == Head(msgq).sid
           msg == Head(msgq).msg
       IN
       IF msg.kind = "Frame" THEN
           /\ msgq' = Tail(msgq)
           /\ IF msg.args # None THEN
                  /\ npending' = Some(ToFullMessage(Some(msg.args[1].activity),
                                                    msg.args[1].pid,
                                                    ToString(sid), client_id))
                  /\ npc' = "send"
              ELSE UNCHANGED <<npending, npc>>
           /\ UNCHANGED <<client_id, cmdq, relayed>>
       ELSE IF msg.kind = "Handshake" THEN
           /\ client_id' = Some(msg.client_id)
           /\ IF sid \in ipc_client_map /\ ~HandlerRunning(sid) THEN
                  /\ npc' = "panicked"
                  /\ msgq' = <<>>
                  /\ UNCHANGED <<cmdq, relayed>>
              ELSE
                  /\ msgq' = Tail(msgq)
                  /\ cmdq' = [cmdq EXCEPT ![sid] =
                                IF sid \in ipc_client_map
                                THEN BroadcastSend(@, CmdFrame(ReadyFrame))
                                ELSE @]
                  /\ relayed' = [relayed EXCEPT ![sid] =
                                   IF sid \in ipc_client_map
                                   THEN Append(@, CmdFrame(ReadyFrame))
                                   ELSE @]
                  /\ UNCHANGED npc
           /\ UNCHANGED npending
       ELSE
           /\ msgq' = Tail(msgq)
           /\ UNCHANGED <<npc, client_id, npending, cmdq, relayed>>
    /\ UNCHANGED <<SOCKET_ID, ipc_client_map, hpc, handshake_done, inb, nmsgs, out,
                   pending, sent, actq, mainVars, bridgeVars>>
    /\ UNCHANGED <<harnessVars, hdr, discarded>>

\* The commands of direct IpcServer::send calls.
JoinFrame == Frame("DISPATCH", Some("ACTIVITY_JOIN"), "", None, None)
ApiCommands == { CmdFrame(JoinFrame), CmdClose }

\* A direct call of the public IpcServer::send for a registered session
\* whose handler, and so the receiver of its channel, is there: the command
\* goes on the session's broadcast channel.
ApiSend(s) ==
    /\ ProcessAlive
    /\ NormalizerAlive
    /\ s \in ipc_client_map
    /\ HandlerRunning(s)
    /\ Cardinality({ x \in SessionIds \X (1 .. MaxCmds) :
                        x[2] <= Len(relayed[x[1]]) }) < MaxCmds
    /\ \E c \in ApiCommands :
        /\ cmdq' = [cmdq EXCEPT ![s] = BroadcastSend(@, c)]
        /\ relayed' = [relayed EXCEPT ![s] = Append(@, c)]
    /\ UNCHANGED <<SOCKET_ID, ipc_client_map, hpc, handshake_done, inb, nmsgs, out,
                   pending, sent, msgq, npc, client_id, npending, actq,
                   mainVars, bridgeVars>>
    /\ UNCHANGED <<harnessVars, hdr, discarded>>

\* tx.send(message).await.unwrap(): waits for room in the capacity-1
\* activity channel (main holds its receiver for as long as it runs).
NormSend ==
    /\ ProcessAlive
    /\ npc = "send"
    /\ Len(actq) < ActCap
    /\ actq' = Append(actq, npending[1])
    /\ npending' = None
    /\ npc' = "recv"
    /\ UNCHANGED <<SOCKET_ID, ipc_client_map, hpc, handshake_done, inb, nmsgs, out,
                   pending, sent, cmdq, msgq, client_id, mainVars, bridgeVars>>
    /\ UNCHANGED auxVars

\* ------------------------------------------------------------------ main

\* An update: the message of one send_activity call with the call's ordinal,
\* which tells two calls with equal messages apart.
Update(m, n) == [msg |-> m, seq |-> n]

\* server.recv() yields Some(activity): bridge.send_activity(activity) starts.
MainRecv ==
    /\ mpc = "recv"
    /\ actq # <<>>
    /\ mpending' = Some(Update(Head(actq), Len(pubs) + 1))
    /\ pubs' = Append(pubs, Update(Head(actq), Len(pubs) + 1))
    /\ actq' = Tail(actq)
    /\ mpc' = "insert"
    /\ UNCHANGED <<SOCKET_ID, ipc_client_map, hpc, handshake_done, inb, nmsgs, out,
                   pending, sent, cmdq, msgq, npc, client_id, npending,
                   bridgeVars>>
    /\ UNCHANGED auxVars

\* server.recv() yields None (the normalizer task and its tx are gone):
\* the loop breaks and main returns Ok.
MainRecvNone ==
    /\ mpc = "recv"
    /\ actq = <<>>
    /\ ~NormalizerAlive
    /\ mpc' = "exited_ok"
    /\ UNCHANGED <<ipcVars, mpending, pubs, bridgeVars>>
    /\ UNCHANGED auxVars


\* ---------------------------------------------------------- BridgeServer

\* BridgeCommand
BMessage(u) == [cmd |-> "Message", upd |-> u]

\* The handle_stream task of subscriber a has not returned: it holds the
\* receiver of the subscriber's unbounded channel.
RxOpen(a) == spc[a] \in {"lockwait", "catchup", "live"}

\* The orders in which iter() may visit the entries of a HashMap with keys S.
Orders(S) ==
    { f \in [1 .. Cardinality(S) -> S] :
        \A i, j \in 1 .. Cardinality(S) : i # j => f[i] # f[j] }

RECURSIVE TryForEach(_, _, _)
\* iter().try_for_each(|(_, tx)| tx.send(c)): sends in iteration order and
\* stops at the first sender whose receiver is gone.
TryForEach(order, q, c) ==
    IF order = <<>> THEN [queue |-> q, ok |-> TRUE]
    ELSE IF ~RxOpen(Head(order)) THEN [queue |-> q, ok |-> FALSE]
    ELSE TryForEach(Tail(order), [q EXCEPT ![Head(order)] = Append(@, c)], c)

\* send_activity, first statement: activity_map.lock().await.insert(..).
PubInsert ==
    /\ mpc = "insert"
    /\ amlock = None
    /\ activity_map' =
           [activity_map EXCEPT ![mpending[1].msg.socket_id] = mpending]
    /\ mpc' = "fanout"
    /\ UNCHANGED <<ipcVars, mpending, pubs, client_map, amlock, spc, queue,
                   wire, todo, snap, regAt>>
    /\ UNCHANGED auxVars

\* send_activity, second statement: the fan-out under the client_map lock.
\* Its Err is returned by `?` from send_activity and from main.
PubFanout ==
    /\ mpc = "fanout"
    /\ \E order \in Orders(client_map) :
        LET r == TryForEach(order, queue, BMessage(mpending[1])) IN
        /\ queue' = r.queue
        /\ mpc' = IF r.ok THEN "recv" ELSE "exited_err"
    /\ mpending' = None
    /\ UNCHANGED <<ipcVars, pubs, activity_map, client_map, amlock, spc,
                   wire, todo, snap, regAt>>
    /\ UNCHANGED auxVars

\* A direct call of the public send_activity with any message, up to its
\* first statement (the insert, once the activity_map lock is free).
ApiMessages ==
    { ToFullMessage(p, 42, k, Some("a")) :
        p \in {None} \cup { Some(a) : a \in PartialActivities },
        k \in SessionKeys }

\* Mutant: the insert keeps an entry that is already there (or_insert).
ApiPublish_KeepFirst ==
    /\ mpc = "recv"
    /\ Len(pubs) < MaxPubs
    /\ amlock = None
    /\ \E m \in ApiMessages :
        LET u == Update(m, Len(pubs) + 1) IN
        /\ mpending' = Some(u)
        /\ pubs' = Append(pubs, u)
        /\ activity_map' =
               IF activity_map[m.socket_id] = None
               THEN [activity_map EXCEPT ![m.socket_id] = Some(u)]
               ELSE activity_map
    /\ mpc' = "fanout"
    /\ UNCHANGED <<ipcVars, client_map, amlock, spc, queue, wire, todo, snap,
                   regAt>>
    /\ UNCHANGED auxVars

ApiPublish ==
    /\ mpc = "recv"
    /\ Len(pubs) < MaxPubs
    /\ amlock = None
    /\ \E m \in ApiMessages :
        LET u == Update(m, Len(pubs) + 1) IN
        /\ mpending' = Some(u)
        /\ pubs' = Append(pubs, u)
        /\ activity_map' = [activity_map EXCEPT ![m.socket_id] = Some(u)]
    /\ mpc' = "fanout"
    /\ UNCHANGED <<ipcVars, client_map, amlock, spc, queue, wire, todo, snap,
                   regAt>>
    /\ UNCHANGED auxVars

\* accept_loop: the next connection's sender is registered under its address
\* and its handler is spawned.  The handler's first statement,
\* accept_async(stream).await?, succeeds, or returns its error: rx is dropped
\* and the address stays registered.
BridgeAccept(a) ==
    /\ ProcessAlive
    /\ spc[a] = "none"
    /\ a = Cardinality({ b \in Addrs : spc[b] # "none" })
    /\ client_map' = client_map \cup {a}
    /\ regAt' = [regAt EXCEPT ![a] = Len(pubs)]
    /\ \/ spc' = [spc EXCEPT ![a] = "lockwait"]
       \/ spc' = [spc EXCEPT ![a] = "failed"]
    /\ UNCHANGED <<ipcVars, mainVars, activity_map, amlock, queue, wire,
                   todo, snap>>
    /\ UNCHANGED auxVars

\* Mutant: the catch-up loop without its filter.
CatchUpSends_All(u) == TRUE

\* Mutant: the catch-up filter inverted (is_none for is_some).
CatchUpSends_Inverted(u) == u.msg.activity = None

\* The catch-up filter: an entry is replayed when its activity is Some.
CatchUpSends(u) == u.msg.activity # None

\* The keys of the entries the catch-up loop iterates over.
SnapshotKeys == { k \in SessionKeys : activity_map[k] # None }

\* The catch-up loop takes the activity_map lock; the guard lives until the
\* loop is left, which an empty map does at once.
CatchUpLock(a) ==
    /\ ProcessAlive
    /\ spc[a] = "lockwait"
    /\ amlock = None
    /\ snap' = [snap EXCEPT ![a] = Some(activity_map)]
    /\ todo' = [todo EXCEPT ![a] = SnapshotKeys]
    /\ IF SnapshotKeys = {} THEN
           /\ spc' = [spc EXCEPT ![a] = "live"]
           /\ UNCHANGED amlock
       ELSE
           /\ spc' = [spc EXCEPT ![a] = "catchup"]
           /\ amlock' = Some(a)
    /\ UNCHANGED <<ipcVars, mainVars, activity_map, client_map, queue, wire,
                   regAt>>
    /\ UNCHANGED auxVars

\* Mutant: the guard of the catch-up loop outlives the loop: after the last
\* entry the select! loop runs with the activity_map lock still held.
CatchUpStep_KeepsLock(a) ==
    /\ ProcessAlive
    /\ spc[a] = "catchup"
    /\ \E k \in todo[a] :
        LET u == activity_map[k][1] IN
        \/ /\ todo' = [todo EXCEPT ![a] = @ \ {k}]
           /\ wire' = [wire EXCEPT ![a] =
                         IF CatchUpSends(u)
                         THEN Append(@, [via |-> "catchup", upd |-> u])
                         ELSE @]
           /\ IF todo[a] = {k} THEN
                  /\ spc' = [spc EXCEPT ![a] = "live"]
                  /\ UNCHANGED amlock
              ELSE UNCHANGED <<spc, amlock>>
        \/ /\ CatchUpSends(u)
           /\ todo' = [todo EXCEPT ![a] = {}]
           /\ spc' = [spc EXCEPT ![a] = "failed"]
           /\ amlock' = None
           /\ wire' = [wire EXCEPT ![a] = <<>>]
    /\ queue' = [queue EXCEPT ![a] = IF spc'[a] = "failed" THEN <<>> ELSE @]
    /\ snap' = [snap EXCEPT ![a] = IF spc'[a] = "failed" THEN None ELSE @]
    /\ UNCHANGED <<ipcVars, mainVars, activity_map, client_map, regAt>>
    /\ UNCHANGED auxVars

\* One iteration of the catch-up loop, over the entries in any order: the
\* entry is written when the filter passes; a failed write returns by `?`.
\* After the last entry the lock is released and the select! loop runs.
CatchUpStep(a) ==
    /\ ProcessAlive
    /\ spc[a] = "catchup"
    /\ \E k \in todo[a] :
        LET u == activity_map[k][1] IN
        \/ /\ todo' = [todo EXCEPT ![a] = @ \ {k}]
           /\ wire' = [wire EXCEPT ![a] =
                         IF CatchUpSends(u)
                         THEN Append(@, [via |-> "catchup", upd |-> u])
                         ELSE @]
           /\ IF todo[a] = {k} THEN
                  /\ spc' = [spc EXCEPT ![a] = "live"]
                  /\ amlock' = None
              ELSE UNCHANGED <<spc, amlock>>
        \/ /\ CatchUpSends(u)
           /\ todo' = [todo EXCEPT ![a] = {}]
           /\ spc' = [spc EXCEPT ![a] = "failed"]
           /\ amlock' = None
           /\ wire' = [wire EXCEPT ![a] = <<>>]
    /\ queue' = [queue EXCEPT ![a] = IF spc'[a] = "failed" THEN <<>> ELSE @]
    /\ snap' = [snap EXCEPT ![a] = IF spc'[a] = "failed" THEN None ELSE @]
    /\ UNCHANGED <<ipcVars, mainVars, activity_map, client_map, regAt>>
    /\ UNCHANGED auxVars

\* Mutant: the handler takes the newest command of its queue, not the oldest.
LiveDeliver_Lifo(a) ==
    /\ ProcessAlive
    /\ spc[a] = "live"
    /\ queue[a] # <<>>
    /\ queue[a][Len(queue[a])].cmd = "Message"
    /\ wire' = [wire EXCEPT ![a] =
                  Append(@, [via |-> "live",
                             upd |-> queue[a][Len(queue[a])].upd])]
    /\ queue' = [queue EXCEPT ![a] = SubSeq(@, 1, Len(@) - 1)]
    /\ UNCHANGED <<ipcVars, mainVars, activity_map, client_map, amlock, spc,
                   snap, todo, regAt>>
    /\ UNCHANGED auxVars

\* The rx.recv() arm with a Message: it is written as a text message; a
\* failed write returns by `?`, which drops rx and the connection.
LiveDeliver(a) ==
    /\ ProcessAlive
    /\ spc[a] = "live"
    /\ queue[a] # <<>>
    /\ Head(queue[a]).cmd = "Message"
    /\ \/ /\ wire' = [wire EXCEPT ![a] =
                        Append(@, [via |-> "live", upd |-> Head(queue[a]).upd])]
          /\ queue' = [queue EXCEPT ![a] = Tail(@)]
          /\ UNCHANGED <<spc, snap>>
       \/ /\ spc' = [spc EXCEPT ![a] = "failed"]
          /\ wire' = [wire EXCEPT ![a] = <<>>]
          /\ queue' = [queue EXCEPT ![a] = <<>>]
          /\ snap' = [snap EXCEPT ![a] = None]
    /\ UNCHANGED <<ipcVars, mainVars, activity_map, client_map, amlock, todo,
                   regAt>>
    /\ UNCHANGED auxVars

\* The read.next() arm with None, Close or Err: the loop breaks and the
\* address is removed from client_map; rx and the connection are dropped.
PeerClose(a) ==
    /\ ProcessAlive
    /\ spc[a] = "live"
    /\ spc' = [spc EXCEPT ![a] = "gone"]
    /\ client_map' = client_map \ {a}
    /\ queue' = [queue EXCEPT ![a] = <<>>]
    /\ wire' = [wire EXCEPT ![a] = <<>>]
    /\ snap' = [snap EXCEPT ![a] = None]
    /\ UNCHANGED <<ipcVars, mainVars, activity_map, amlock, todo, regAt>>
    /\ UNCHANGED auxVars

\* ------------------------------------------------- interrupt and close

\* BridgeCommand::Close
BClose == [cmd |-> "Close"]

\* main's ctrl_c arm: bridge.close() sends Close to every registered
\* subscriber under the client_map lock, stopping with an error at the first
\* sender whose receiver is gone (returned by `?` from close and from main);
\* otherwise main leaves its loop.
CtrlC ==
    /\ mpc = "recv"
    /\ \E order \in Orders(client_map) :
        LET r == TryForEach(order, queue, BClose) IN
        /\ queue' = r.queue
        /\ mpc' = IF r.ok THEN "shutdown" ELSE "exited_err"
    /\ UNCHANGED <<ipcVars, mpending, pubs, activity_map, client_map, amlock,
                   spc, wire, todo, snap, regAt>>
    /\ UNCHANGED auxVars

\* main returns Ok(()): the runtime is dropped and with it every spawned
\* task, wherever it is; nothing waits for the subscriber handlers.
MainReturn ==
    /\ mpc = "shutdown"
    /\ mpc' = "exited_ok"
    /\ UNCHANGED <<ipcVars, mpending, pubs, bridgeVars>>
    /\ UNCHANGED auxVars

\* The rx.recv() arm with Close: the handler locks activity_map for its
\* iter_mut() loop; over an empty map it returns Ok(()) at once.  The return
\* skips client_map.remove.
CloseRecv(a) ==
    /\ ProcessAlive
    /\ spc[a] = "live"
    /\ queue[a] # <<>>
    /\ Head(queue[a]) = BClose
    /\ amlock = None
    /\ queue' = [queue EXCEPT ![a] = Tail(@)]
    /\ todo' = [todo EXCEPT ![a] = SnapshotKeys]
    /\ IF SnapshotKeys = {} THEN
           /\ spc' = [spc EXCEPT ![a] = "closed"]
           /\ UNCHANGED amlock
       ELSE
           /\ spc' = [spc EXCEPT ![a] = "closing"]
           /\ amlock' = Some(a)
    /\ UNCHANGED <<ipcVars, mainVars, activity_map, client_map, wire, snap,
                   regAt>>
    /\ UNCHANGED auxVars

\* The stored message with its activity set to None (msg.activity = None).
Cleared(u) == [u EXCEPT !.msg.activity = None]

\* One iteration of the Close loop: the entry's activity is set to None in
\* the map and the entry is written; a failed write returns by `?`.  After
\* the last entry the handler returns Ok(()).
CloseStep(a) ==
    /\ ProcessAlive
    /\ spc[a] = "closing"
    /\ \E k \in todo[a] :
        LET u == Cleared(activity_map[k][1]) IN
        /\ activity_map' = [activity_map EXCEPT ![k] = Some(u)]
        /\ \/ /\ todo' = [todo EXCEPT ![a] = @ \ {k}]
              /\ wire' = [wire EXCEPT ![a] =
                            Append(@, [via |-> "close", upd |-> u])]
              /\ IF todo[a] = {k} THEN
                     /\ spc' = [spc EXCEPT ![a] = "closed"]
                     /\ amlock' = None
                 ELSE UNCHANGED <<spc, amlock>>
              /\ UNCHANGED <<queue, snap>>
           \/ /\ todo' = [todo EXCEPT ![a] = {}]
              /\ spc' = [spc EXCEPT ![a] = "failed"]
              /\ amlock' = None
              /\ wire' = [wire EXCEPT ![a] = <<>>]
              /\ queue' = [queue EXCEPT ![a] = <<>>]
              /\ snap' = [snap EXCEPT ![a] = None]
    /\ UNCHANGED <<ipcVars, mainVars, client_map, regAt>>
    /\ UNCHANGED auxVars

\* ------------------------------------------- serde_json (ipc/structs.rs)

\* A JSON text, as the value it denotes: serde_json::Value.  An object is the
\* sequence of its members in the order they are written.
JNull == [t |-> "null"]
JBool(b) == [t |-> "bool", b |-> b]
JNum(n) == [t |-> "num", n |-> n]
JStr(s) == [t |-> "str", s |-> s]
JArr(items) == [t |-> "arr", items |-> items]
JObj(members) == [t |-> "obj", members |-> members]
Member(k, d) == [k |-> k, d |-> d]

\* The length of a JSON text, in tokens.
RECURSIVE ByteLen(_)
ByteLen(doc) ==
    IF doc.t \in {"arr", "obj"} THEN
        LET n == IF doc.t = "arr" THEN Len(doc.items) ELSE Len(doc.members)
            item(i) == IF doc.t = "arr" THEN doc.items[i] ELSE doc.members[i].d
            F[i \in 0 .. n] ==
                IF i = 0 THEN 0 ELSE F[i - 1] + ByteLen(item(i))
        IN 2 + n + F[n]
    ELSE 1

\* #[serde(skip_serializing_if = "Option::is_none")] on a member.
\* opt is the member's value already serialized, if it is Some.
SkipNone(k, opt) ==
    IF opt = None THEN <<>> ELSE <<Member(k, opt[1])>>
SomeStr(o) == IF o = None THEN None ELSE Some(JStr(o[1]))
SomeNum(o) == IF o = None THEN None ELSE Some(JNum(o[1]))

\* All-None Assets, and one with an image key.
NoAssets ==
    [large_image |-> None, large_text |-> None, small_image |-> None,
     small_text |-> None]
AssetsIsEmpty(a) ==
    /\ a.large_image = None
    /\ a.large_text = None
    /\ a.small_image = None
    /\ a.small_text = None

\* Serialize, as derived for each struct.
SerAssets(a) ==
    JObj(SkipNone("large_image", SomeStr(a.large_image))
         \o SkipNone("large_text", SomeStr(a.large_text))
         \o SkipNone("small_image", SomeStr(a.small_image))
         \o SkipNone("small_text", SomeStr(a.small_text)))
SerButton(b) ==
    JObj(<<Member("label", JStr(b.label)), Member("url", JStr(b.url))>>)
SerButtons(bs) == JArr([i \in 1 .. Len(bs) |-> SerButton(bs[i])])
SerTimestamps(ts) ==
    JObj(<<Member("start", JNum(ts.start))>> \o SkipNone("end", SomeNum(ts.end)))
SerPartialActivity(a) ==
    JObj(<<Member("state", JStr(a.state)), Member("details", JStr(a.details))>>
         \o (IF AssetsIsEmpty(a.assets) THEN <<>>
             ELSE <<Member("assets", SerAssets(a.assets))>>)
         \o (IF a.buttons = <<>> THEN <<>>
             ELSE <<Member("buttons", SerButtons(a.buttons))>>)
         \o <<Member("instance", JBool(a.instance))>>
         \o SkipNone("timestamps",
                     IF a.timestamps = None THEN None
                     ELSE Some(SerTimestamps(a.timestamps[1]))))
SerFrameArgs(x) ==
    JObj(<<Member("activity", SerPartialActivity(x.activity)),
           Member("pid", JNum(x.pid))>>)
SerValue(d) == d
SerFrame(f) ==
    JObj(SkipNone("args", IF f.args = None THEN None
                          ELSE Some(SerFrameArgs(f.args[1])))
         \o SkipNone("data", IF f.data = None THEN None
                             ELSE Some(SerValue(f.data[1])))
         \o <<Member("cmd", JStr(f.cmd))>>
         \o SkipNone("evt", SomeStr(f.evt))
         \o <<Member("nonce", JStr(f.nonce))>>)
SerHandshake(h) ==
    JObj(<<Member("v", JNum(h.version)),
           Member("client_id", JStr(h.client_id))>>)
\* CloseCodes derives Serialize: a unit variant is written as its name.
SerClose(c) ==
    JObj(<<Member("code", JStr(c.code)), Member("message", JStr(c.message))>>)

\* The tag try_encode writes for each kind.
TagOf(m) ==
    CASE m.kind = "Handshake" -> 0
      [] m.kind = "Frame" -> 1
      [] m.kind = "Close" -> 2
      [] m.kind = "Ping" -> 3
      [] m.kind = "Pong" -> 4

\* to_vec(data) in each arm of try_encode.
ToVec(m) ==
    CASE m.kind = "Handshake" -> SerHandshake(m)
      [] m.kind = "Frame" -> SerFrame(m)
      [] m.kind = "Close" -> SerClose(m)
      [] m.kind = "Ping" -> SerValue(m.data)
      [] m.kind = "Pong" -> SerValue(m.data)

\* IpcMessage::try_encode: tag, length of the payload, payload.
TryEncode(m) == [tag |-> TagOf(m), len |-> ByteLen(ToVec(m)), data |-> ToVec(m)]

\* Result<T>
Ok(x) == <<"Ok", x>>
Err == <<"Err">>
IsOk(r) == r[1] = "Ok"

\* The member of object doc with key k, if there is one.
Field(doc, k) ==
    LET I == { i \in 1 .. Len(doc.members) : doc.members[i].k = k } IN
    IF I = {} THEN None ELSE Some(doc.members[CHOOSE i \in I : TRUE].d)

\* Deserialize for String, integers, bool and Value; o is the member found.
\* A member that is not an Option and is absent is a missing-field error.
DeString(o) == IF o # None /\ o[1].t = "str" THEN Ok(o[1].s) ELSE Err
DeNum(o) == IF o # None /\ o[1].t = "num" THEN Ok(o[1].n) ELSE Err
DeBool(o) == IF o # None /\ o[1].t = "bool" THEN Ok(o[1].b) ELSE Err
DeValue(o) == IF o # None THEN Ok(o[1]) ELSE Err

\* Deserialize for Option<T>: an absent member and null are both None.
\* r is what T's Deserialize makes of the member.
DeOption(o, r) ==
    IF o = None \/ o[1].t = "null" THEN Ok(None)
    ELSE IF IsOk(r) THEN Ok(Some(r[2])) ELSE Err

\* Deserialize, as derived for each struct, from a JSON object.
IsObj(o) == o # None /\ o[1].t = "obj"
OptString(o) == DeOption(o, DeString(o))
OptNum(o) == DeOption(o, DeNum(o))

DeAssets(o) ==
    IF ~IsObj(o) THEN Err
    ELSE LET li == OptString(Field(o[1], "large_image"))
             lt == OptString(Field(o[1], "large_text"))
             si == OptString(Field(o[1], "small_image"))
             st == OptString(Field(o[1], "small_text"))
         IN IF IsOk(li) /\ IsOk(lt) /\ IsOk(si) /\ IsOk(st)
            THEN Ok([large_image |-> li[2], large_text |-> lt[2],
                     small_image |-> si[2], small_text |-> st[2]])
            ELSE Err

DeButton(o) ==
    IF ~IsObj(o) THEN Err
    ELSE LET l == DeString(Field(o[1], "label"))
             u == DeString(Field(o[1], "url"))
         IN IF IsOk(l) /\ IsOk(u) THEN Ok([label |-> l[2], url |-> u[2]])
            ELSE Err

DeButtons(o) ==
    IF o = None \/ o[1].t # "arr" THEN Err
    ELSE LET items == o[1].items IN
         IF \A i \in 1 .. Len(items) : IsOk(DeButton(Some(items[i])))
         THEN Ok([i \in 1 .. Len(items) |-> DeButton(Some(items[i]))[2]])
         ELSE Err

DeTimestamps(o) ==
    IF ~IsObj(o) THEN Err
    ELSE LET s == DeNum(Field(o[1], "start"))
             e == OptNum(Field(o[1], "end"))
         IN IF IsOk(s) /\ IsOk(e) THEN Ok([start |-> s[2], end |-> e[2]])
            ELSE Err

DePartialActivity(o) ==
    IF ~IsObj(o) THEN Err
    ELSE LET state == DeString(Field(o[1], "state"))
             details == DeString(Field(o[1], "details"))
             assets == DeAssets(Field(o[1], "assets"))
             buttons == DeButtons(Field(o[1], "buttons"))
             instance == DeBool(Field(o[1], "instance"))
             timestamps == DeOption(Field(o[1], "timestamps"),
                                   DeTimestamps(Field(o[1], "timestamps")))
         IN IF /\ IsOk(state) /\ IsOk(details) /\ IsOk(assets)
               /\ IsOk(buttons) /\ IsOk(instance) /\ IsOk(timestamps)
            THEN Ok([state |-> state[2], details |-> details[2],
                     assets |-> assets[2], buttons |-> buttons[2],
                     instance |-> instance[2], timestamps |-> timestamps[2]])
            ELSE Err

DeFrameArgs(o) ==
    IF ~IsObj(o) THEN Err
    ELSE LET a == DePartialActivity(Field(o[1], "activity"))
             pid == DeNum(Field(o[1], "pid"))
         IN IF IsOk(a) /\ IsOk(pid) THEN Ok(FrameArgs(a[2], pid[2])) ELSE Err

DeFrame(o) ==
    IF ~IsObj(o) THEN Err
    ELSE LET args == DeOption(Field(o[1], "args"),
                             DeFrameArgs(Field(o[1], "args")))
             data == DeOption(Field(o[1], "data"),
                             DeValue(Field(o[1], "data")))
             cmd == DeString(Field(o[1], "cmd"))
             evt == OptString(Field(o[1], "evt"))
             nonce == DeString(Field(o[1], "nonce"))
         IN IF /\ IsOk(args) /\ IsOk(data) /\ IsOk(cmd) /\ IsOk(evt)
               /\ IsOk(nonce)
            THEN Ok(Frame(cmd[2], evt[2], nonce[2], args[2], data[2]))
            ELSE Err

DeHandshake(o) ==
    IF ~IsObj(o) THEN Err
    ELSE LET v == DeNum(Field(o[1], "v"))
             c == DeString(Field(o[1], "client_id"))
         IN IF IsOk(v) /\ IsOk(c) THEN Ok(Handshake(v[2], c[2])) ELSE Err

\* CloseCodes derives Deserialize: a unit variant is read from its name.
CloseCodeNames ==
    {"Normal", "Unsupported", "Abnormal", "InvalidClientID", "InvalidVersion"}
DeCloseCode(o) ==
    IF IsOk(DeString(o)) /\ DeString(o)[2] \in CloseCodeNames
    THEN DeString(o) ELSE Err

DeClose(o) ==
    IF ~IsObj(o) THEN Err
    ELSE LET c == DeCloseCode(Field(o[1], "code"))
             m == DeString(Field(o[1], "message"))
         IN IF IsOk(c) /\ IsOk(m)
            THEN Ok([kind |-> "Close", code |-> c[2], message |-> m[2]])
            ELSE Err

\* The data_len bytes try_decode reads after the header: a JSON text cut
\* short is no JSON text.
ReadPayload(b) == IF b.len >= ByteLen(b.data) THEN Some(b.data) ELSE None

\* IpcMessage::try_decode on a stream that holds the bytes b.
TryDecode(b) ==
    LET text == ReadPayload(b) IN
    CASE b.tag = 0 -> DeHandshake(text)
      [] b.tag = 1 -> DeFrame(text)
      [] b.tag = 2 -> IF IsOk(DeClose(text)) THEN DeClose(text)
                      ELSE Ok(Close(Normal))
      [] b.tag = 3 -> IF IsOk(DeValue(text)) THEN Ok(Ping(DeValue(text)[2]))
                      ELSE Err
      [] b.tag = 4 -> IF IsOk(DeValue(text)) THEN Ok(Pong(DeValue(text)[2]))
                      ELSE Err
      [] OTHER -> Err

\* IpcPartialActivity values with every field, empty and not.
CodecActivities ==
    { [state |-> "s", details |-> "d", assets |-> as, buttons |-> bs,
       instance |-> TRUE, timestamps |-> ts] :
        as \in { NoAssets, [NoAssets EXCEPT !.large_image = Some("img")] },
        bs \in { <<>>, <<[label |-> "l1", url |-> "u1"]>> },
        ts \in { None, Some([start |-> 1, end |-> None]),
                 Some([start |-> 1, end |-> Some(2)]) } }

\* serde_json::Value payloads.
CodecValues == { JNull, JStr("p"), JNum(7), JObj(<<Member("v", JNum(1))>>) }

\* The messages handed to try_encode.
CodecMessages ==
    ClientHandshakes
    \cup { Frame(cmd, evt, "n1", args, data) :
             cmd \in {"SET_ACTIVITY"},
             evt \in {None, Some("READY")},
             args \in {None} \cup
                      { Some(FrameArgs(a, 42)) : a \in CodecActivities },
             data \in {None} \cup { Some(v) : v \in CodecValues } }
    \cup { Close(c) : c \in {Normal, InvalidClientID, InvalidVersion} }
    \cup { Ping(v) : v \in CodecValues }
    \cup { Pong(v) : v \in CodecValues }

\* The discriminants of CloseCodes.
CodeNumber(c) ==
    CASE c = "Normal" -> 1000
      [] c = "Unsupported" -> 1003
      [] c = "Abnormal" -> 1006
      [] c = "InvalidClientID" -> 4000
      [] c = "InvalidVersion" -> 4004

\* Close frames as a client writes them: tag 2 and a payload whose code is
\* the integer of a close reason.
WireCloses ==
    { [tag |-> 2, len |-> ByteLen(d), data |-> d] :
        d \in { JObj(<<Member("code", JNum(CodeNumber(c))),
                       Member("message", JStr(""))>>) : c \in CloseCodeNames } }

\* try_encode is applied to the message.
Encode ==
    /\ enc_msg # None
    /\ buffer = None
    /\ buffer' = Some(TryEncode(enc_msg[1]))
    /\ UNCHANGED <<enc_msg, dec_msg, bindVars, normVars>>
    /\ UNCHANGED <<ipcVars, mainVars, bridgeVars, sessVars>>

\* try_decode is applied to a stream holding the encoded bytes.
Decode ==
    /\ buffer # None
    /\ dec_msg = None
    /\ dec_msg' = Some(TryDecode(buffer[1]))
    /\ UNCHANGED <<enc_msg, buffer, bindVars, normVars>>
    /\ UNCHANGED <<ipcVars, mainVars, bridgeVars, sessVars>>

\* ---------------------------------------------------------- specifications

\* The tasks, channels and tables right after main has built the servers.
InitState ==
    /\ SOCKET_ID = 0
    /\ ipc_client_map = {}
    /\ hpc = [s \in SessionIds |-> "none"]
    /\ handshake_done = [s \in SessionIds |-> FALSE]
    /\ inb = [s \in SessionIds |-> <<>>]
    /\ nmsgs = 0
    /\ out = [s \in SessionIds |-> <<>>]
    /\ pending = [s \in SessionIds |-> None]
    /\ sent = [s \in SessionIds |-> <<>>]
    /\ cmdq = [s \in SessionIds |-> <<>>]
    /\ msgq = <<>>
    /\ npc = "recv"
    /\ client_id = None
    /\ npending = None
    /\ actq = <<>>
    /\ mpc = "recv"
    /\ mpending = None
    /\ pubs = <<>>
    /\ activity_map = [k \in SessionKeys |-> None]
    /\ client_map = {}
    /\ amlock = None
    /\ spc = [a \in Addrs |-> "none"]
    /\ queue = [a \in Addrs |-> <<>>]
    /\ wire = [a \in Addrs |-> <<>>]
    /\ todo = [a \in Addrs |-> {}]
    /\ snap = [a \in Addrs |-> None]
    /\ regAt = [a \in Addrs |-> 0]

\* IpcServer::try_bind has bound the first candidate.
InitBound ==
    /\ bind_env = [i \in BindIndices |-> "Ok"]
    /\ bind_i = 0
    /\ bind_res = "bound"

\* No codec call and no to_full_message call is under way.
InitCodecIdle ==
    /\ enc_msg = None
    /\ buffer = None
    /\ dec_msg = None

InitNormIdle ==
    /\ tfm_partial = None
    /\ tfm_full = None

\* No command has been sent and no header read.
InitSess ==
    /\ relayed = [s \in SessionIds |-> <<>>]
    /\ hdr = [s \in SessionIds |-> FALSE]
    /\ discarded = [s \in SessionIds |-> FALSE]

Init ==
    /\ InitState
    /\ InitBound
    /\ InitCodecIdle
    /\ InitNormIdle
    /\ InitSess

\* The local IPC side up to main's publishing, with no web client connected.
Next ==
    \/ IpcAccept
    \/ \E s \in SessionIds : OnHandshake(s)
    \/ \E s \in SessionIds : OnPing(s)
    \/ \E s \in SessionIds : OnPong(s)
    \/ \E s \in SessionIds : OnFrame(s)
    \/ \E s \in SessionIds : OnClose(s)
    \/ \E s \in SessionIds : OnDecodeErr(s)
    \/ \E s \in SessionIds : OnEof(s)
    \/ \E s \in SessionIds : Forward(s)
    \/ \E s \in SessionIds : OnCommand(s)
    \/ NormRecv
    \/ NormSend
    \/ MainRecv
    \/ MainRecvNone
    \/ PubInsert
    \/ PubFanout

Spec == Init /\ [][Next]_vars

\* The bridge under direct send_activity calls and connecting web clients.
NextBridge ==
    \/ ApiPublish
    \/ PubFanout
    \/ \E a \in Addrs : BridgeAccept(a)
    \/ \E a \in Addrs : CatchUpLock(a)
    \/ \E a \in Addrs : CatchUpStep(a)
    \/ \E a \in Addrs : LiveDeliver(a)
    \/ \E a \in Addrs : PeerClose(a)

SpecBridge == Init /\ [][NextBridge]_vars

\* IpcServer::try_bind alone, for every answer of the ten candidate paths.
InitBind ==
    /\ InitState
    /\ InitSess
    /\ bind_env \in [BindIndices -> BindOutcomes]
    /\ bind_i = 0
    /\ bind_res = "probing"
    /\ InitCodecIdle
    /\ InitNormIdle

NextBind ==
    \/ BindTry
    \/ BindRanOut

SpecBind == InitBind /\ [][NextBind]_vars

\* The codec alone: one message encoded and the bytes decoded again, or the
\* bytes of a client's Close frame decoded.
InitCodec ==
    /\ InitState
    /\ InitSess
    /\ InitBound
    /\ \/ /\ enc_msg \in { Some(m) : m \in CodecMessages }
          /\ buffer = None
       \/ /\ enc_msg = None
          /\ buffer \in { Some(b) : b \in WireCloses }
    /\ dec_msg = None
    /\ InitNormIdle

NextCodec ==
    \/ Encode
    \/ Decode

SpecCodec == InitCodec /\ [][NextCodec]_vars

\* to_full_message alone, for every button list.
InitNorm ==
    /\ InitState
    /\ InitSess
    /\ InitBound
    /\ InitCodecIdle
    /\ tfm_partial \in { Some(a) : a \in ButtonActivities }
    /\ tfm_full = None

NextNorm == ToFull

SpecNorm == InitNorm /\ [][NextNorm]_vars

\* The bridge with the interrupt: main's ctrl_c arm and the handlers' Close.
NextShutdown ==
    \/ ApiPublish
    \/ PubFanout
    \/ \E a \in Addrs : BridgeAccept(a)
    \/ \E a \in Addrs : CatchUpLock(a)
    \/ \E a \in Addrs : CatchUpStep(a)
    \/ \E a \in Addrs : LiveDeliver(a)
    \/ \E a \in Addrs : PeerClose(a)
    \/ CtrlC
    \/ MainReturn
    \/ \E a \in Addrs : CloseRecv(a)
    \/ \E a \in Addrs : CloseStep(a)

SpecShutdown == Init /\ [][NextShutdown]_vars

\* The session handlers with headers and payloads read apart and with direct
\* IpcServer::send calls, for clients that send handshakes.
NextSession ==
    \/ IpcAccept
    \/ \E s \in SessionIds : ReadHeader(s)
    \/ \E s \in SessionIds : OnHandshake(s)
    \/ \E s \in SessionIds : OnEof(s)
    \/ \E s \in SessionIds : Forward(s)
    \/ \E s \in SessionIds : OnCommand(s)
    \/ \E s \in SessionIds : ApiSend(s)
    \/ NormRecv
    \/ MainRecvNone

SpecSession == Init /\ [][NextSession]_vars

\* The whole chain from the sessions to the web clients: handlers, event
\* channel, normalizer task, activity channel, main loop and subscribers.
NextChain ==
    \/ IpcAccept
    \/ \E s \in SessionIds : OnHandshake(s)
    \/ \E s \in SessionIds : OnFrame(s)
    \/ \E s \in SessionIds : Forward(s)
    \/ \E s \in SessionIds : OnCommand(s)
    \/ NormRecv
    \/ NormSend
    \/ MainRecv
    \/ PubInsert
    \/ PubFanout
    \/ \E a \in Addrs : BridgeAccept(a)
    \/ \E a \in Addrs : CatchUpLock(a)
    \/ \E a \in Addrs : CatchUpStep(a)
    \/ \E a \in Addrs : LiveDeliver(a)
    \/ \E a \in Addrs : PeerClose(a)

SpecChain == Init /\ [][NextChain]_vars

\* Every task that can wait for another one: session handlers on the event
\* channel, the normalizer on the activity channel, main on the activity_map
\* lock and at the interrupt, subscribers on the lock in catch-up and Close.
\* The handlers' command arm, which waits for no task, is in SpecChain.
NextSystem ==
    \/ IpcAccept
    \/ \E s \in SessionIds : OnHandshake(s)
    \/ \E s \in SessionIds : OnFrame(s)
    \/ \E s \in SessionIds : Forward(s)
    \/ NormRecv
    \/ NormSend
    \/ MainRecv
    \/ PubInsert
    \/ PubFanout
    \/ \E a \in Addrs : BridgeAccept(a)
    \/ \E a \in Addrs : CatchUpLock(a)
    \/ \E a \in Addrs : CatchUpStep(a)
    \/ \E a \in Addrs : LiveDeliver(a)
    \/ \E a \in Addrs : PeerClose(a)
    \/ CtrlC
    \/ MainReturn
    \/ \E a \in Addrs : CloseRecv(a)
    \/ \E a \in Addrs : CloseStep(a)

SpecSystem == Init /\ [][NextSystem]_vars



\* =================================================================== claims

Last(sq) == sq[Len(sq)]
Count(sq, K(_)) == Cardinality({ i \in 1 .. Len(sq) : K(sq[i]) })
IsHandshake(m) == m.kind = "Handshake"
IsFrame(m) == m.kind = "Frame"
IsCloseMsg(m) == m.kind = "Close"
IsValidHandshake(m) ==
    m.kind = "Handshake" /\ m.version = 1 /\ m.client_id # ""
IsAck(m) == m.kind = "Frame" /\ m.cmd = "SET_ACTIVITY"
IsReady(m) == m.kind = "Frame" /\ m.cmd = "DISPATCH" /\ m.evt = Some("READY")

\* Session s has received a valid handshake.
ValidHandshakeSeen(s) == \E i \in 1 .. Len(inb[s]) : IsValidHandshake(inb[s][i])

\* The events session s has handed upward: delivered, or waiting in tx.send.
Upward(s) == sent[s] \o pending[s]

\* C1: a Frame decoded while the session's handshake_done is false ends the
\* handler with an error; it is the last message the handler handles, no
\* acknowledgement frame is ever written to the connection and no Frame
\* event is handed upward.
C1_HandshakeGating ==
    \A s \in SessionIds :
        ~handshake_done[s] =>
            \A i \in 1 .. Len(inb[s]) :
                IsFrame(inb[s][i]) =>
                    /\ i = Len(inb[s])
                    /\ hpc[s] = "err_proto"
                    /\ Count(out[s], IsAck) = 0
                    /\ Count(Upward(s), IsFrame) = 0

\* C1 witness: a session that answered a Ping was then ended by a Frame sent
\* before any handshake.
C1_Witness ==
    \E s \in SessionIds :
        /\ Len(inb[s]) = 2
        /\ inb[s][1].kind = "Ping"
        /\ IsFrame(inb[s][2])
        /\ ~handshake_done[s]
        /\ hpc[s] = "err_proto"
        /\ out[s] = <<Pong("p")>>

\* The close code C2 expects for a rejected handshake: the version is looked
\* at first.
ExpectedCloseCode(m) ==
    IF m.version # 1 THEN InvalidVersion ELSE InvalidClientID

\* C2: on a session whose handshake is not done, a Handshake with version
\* # 1 (whatever its client_id) is answered with exactly one Close frame of
\* code InvalidVersion, one with version 1 and an empty client_id with
\* exactly one Close frame of code InvalidClientID; the Close frame is the
\* last frame written, the handler has ended with an error, handshake_done
\* is still false and no Handshake event is handed upward.  handshake_done
\* is true only on sessions that sent a valid handshake.
C2_HandshakeValidation ==
    \A s \in SessionIds :
        /\ handshake_done[s] => ValidHandshakeSeen(s)
        /\ \A i \in 1 .. Len(inb[s]) :
            (IsHandshake(inb[s][i]) /\ ~IsValidHandshake(inb[s][i])
                /\ ~(\E j \in 1 .. (i - 1) : IsValidHandshake(inb[s][j]))) =>
                /\ i = Len(inb[s])
                /\ hpc[s] = "err_proto"
                /\ ~handshake_done[s]
                /\ Count(out[s], IsCloseMsg) = 1
                /\ Last(out[s]) = Close(ExpectedCloseCode(inb[s][i]))
                /\ Count(Upward(s), IsHandshake) = 0

\* C2 witness: a handshake with version 2 and an empty client_id was answered
\* with Close{InvalidVersion}.
C2_Witness ==
    \E s \in SessionIds :
        /\ inb[s] = <<Handshake(2, "")>>
        /\ out[s] = <<Close(InvalidVersion)>>
        /\ hpc[s] = "err_proto"

\* C3: a Handshake received after a valid one ends the handler with an error;
\* it is the last message handled, and the only Handshake event ever handed
\* upward by the session is the first, valid one.
C3_DoubleHandshake ==
    \A s \in SessionIds :
        \A i, j \in 1 .. Len(inb[s]) :
            (i < j /\ IsValidHandshake(inb[s][i]) /\ IsHandshake(inb[s][j])) =>
                /\ j = Len(inb[s])
                /\ hpc[s] = "err_proto"
                /\ Count(Upward(s), IsHandshake) = 1
                /\ \A n \in 1 .. Len(Upward(s)) :
                    IsHandshake(Upward(s)[n]) => Upward(s)[n] = inb[s][i]

\* C3 witness: a second valid handshake, with another client_id, ended the
\* session without a reply.
C3_Witness ==
    \E s \in SessionIds :
        /\ inb[s] = <<Handshake(1, "a"), Handshake(1, "b")>>
        /\ hpc[s] = "err_proto"
        /\ out[s] \in {<<>>, <<ReadyFrame>>}
        /\ sent[s] = <<Handshake(1, "a")>>

\* C4: a READY dispatch is written only to a session that completed a valid
\* handshake, and a session that completed one and whose client sent nothing
\* else and did not disconnect is not ended by the server before READY is
\* written to it (an ended handler writes nothing more, so READY would never
\* come).
C4_ReadyAfterHandshake ==
    \A s \in SessionIds :
        /\ Count(out[s], IsReady) > 0 => handshake_done[s]
        /\ (handshake_done[s] /\ Len(inb[s]) = 1 /\ HandlerEnded(s)
                /\ hpc[s] # "panicked") =>
               Count(out[s], IsReady) > 0

\* The acknowledgements C5 expects for the frames among the messages sq.
RECURSIVE AcksFor(_)
AcksFor(sq) ==
    IF sq = <<>> THEN <<>>
    ELSE IF IsFrame(Head(sq))
         THEN <<Frame("SET_ACTIVITY", None, Head(sq).nonce, None, None)>>
                  \o AcksFor(Tail(sq))
         ELSE AcksFor(Tail(sq))

\* C5: on a session whose handshake is done, the acknowledgements written
\* are, in order, one per received Frame with that Frame's nonce, and every
\* received Frame is handed upward, in order (delivered to the event channel
\* or waiting in tx.send).
C5_ActivityAck ==
    \A s \in SessionIds :
        handshake_done[s] =>
            /\ SelectSeq(out[s], IsAck) = AcksFor(inb[s])
            /\ SelectSeq(Upward(s), IsFrame) = SelectSeq(inb[s], IsFrame)

\* The client_id of the valid handshake of the session with key k.
OwnClientId(k) ==
    LET s == CHOOSE x \in SessionIds : ToString(x) = k
        i == CHOOSE n \in 1 .. Len(inb[s]) : IsValidHandshake(inb[s][n])
    IN inb[s][i].client_id

\* The activity messages that exist: being sent by the normalizer, in the
\* activity channel, and passed to send_activity.
ActivityMessages ==
    { npending[i] : i \in 1 .. Len(npending) }
    \cup { actq[i] : i \in 1 .. Len(actq) }
    \cup { pubs[i].msg : i \in 1 .. Len(pubs) }

\* C6: every activity message of a session carries as application_id the
\* client_id of that session's own handshake.
C6_OwnApplicationId ==
    \A m \in ActivityMessages :
        m.activity # None =>
            m.activity[1].application_id = OwnClientId(m.socket_id)

\* C7: when the fan-out of send_activity finishes, the update has been
\* appended to the queue of every registered subscriber whose receiver is
\* open, and send_activity has not failed, whether or not another registered
\* subscriber's receiver is gone.
C7_FanoutIsolation ==
    [][(mpc = "fanout" /\ mpc' # "fanout") =>
          /\ mpc' # "exited_err"
          /\ \A a \in client_map :
                RxOpen(a) =>
                    queue'[a] = Append(queue[a], BMessage(mpending[1]))]_vars

IsCatchUp(e) == e.via = "catchup"
IsLive(e) == e.via = "live"

\* The updates subscriber a's snapshot holds with a non-None activity.
SnapshotSome(a) ==
    { snap[a][1][k][1] : k \in { x \in SessionKeys :
                                   /\ snap[a][1][x] # None
                                   /\ snap[a][1][x][1].msg.activity # None } }

\* The updates written to subscriber a by the catch-up loop.
Replayed(a) ==
    { wire[a][i].upd : i \in { n \in 1 .. Len(wire[a]) : IsCatchUp(wire[a][n]) } }

Seen(a, u) ==
    \/ \E i \in 1 .. Len(queue[a]) : queue[a][i] = BMessage(u)
    \/ \E i \in 1 .. Len(wire[a]) : wire[a][i].upd = u
    \/ /\ snap[a] # None
       /\ snap[a][1][u.msg.socket_id] # None
       /\ snap[a][1][u.msg.socket_id][1].seq >= u.seq

\* C9: for a subscriber whose handler is in its select! loop, every update
\* published after the subscriber's registration whose send_activity call is
\* over has been handed to the subscriber.
C9_NoUpdateDropped ==
    \A a \in Addrs :
        spc[a] = "live" =>
            \A i \in (regAt[a] + 1) .. Len(pubs) :
                mpending # Some(pubs[i]) => Seen(a, pubs[i])

\* The latest update published for the session with key k, if any.
LatestFor(k) ==
    LET I == { i \in 1 .. Len(pubs) : pubs[i].msg.socket_id = k } IN
    IF I = {} THEN None
    ELSE Some(pubs[CHOOSE i \in I : \A j \in I : j <= i])

\* C10: the snapshot table holds for every session the latest update
\* published for it, and a subscriber whose snapshot holds an update with
\* activity None for a session is written no catch-up message for that
\* session.
C10_Clearing ==
    /\ \A k \in SessionKeys : activity_map[k] = LatestFor(k)
    /\ \A a \in Addrs :
        snap[a] # None =>
            \A k \in SessionKeys :
                (snap[a][1][k] # None /\ snap[a][1][k][1].msg.activity = None) =>
                    \A i \in 1 .. Len(wire[a]) :
                        IsCatchUp(wire[a][i]) => wire[a][i].upd.msg.socket_id # k

\* C10 witness: a session published an activity and then None; a subscriber
\* that took its snapshot afterwards has finished its catch-up loop.
C10_Witness ==
    \E a \in Addrs, k \in SessionKeys :
        /\ spc[a] = "live"
        /\ snap[a] # None
        /\ snap[a][1][k] # None
        /\ snap[a][1][k][1].msg.activity = None
        /\ \E i \in 1 .. Len(pubs) :
            /\ pubs[i].msg.socket_id = k
            /\ pubs[i].msg.activity # None
            /\ i < snap[a][1][k][1].seq

\* Subscriber a was sent the Close command of bridge.close().
GotClose(a) ==
    \/ spc[a] \in {"closing", "closed"}
    \/ \E i \in 1 .. Len(queue[a]) : queue[a][i] = BClose

\* The sessions whose latest published activity is not None.
LiveSessions ==
    { k \in SessionKeys :
        LatestFor(k) # None /\ LatestFor(k)[1].msg.activity # None }

\* Subscriber a has been written a message with activity None for session k
\* by its Close loop.
WrittenCleared(a, k) ==
    \E i \in 1 .. Len(wire[a]) :
        /\ wire[a][i].via = "close"
        /\ wire[a][i].upd.msg.socket_id = k
        /\ wire[a][i].upd.msg.activity = None

\* C11: when main has returned after an interrupt, every subscriber that was
\* sent the Close command has been written one message with activity None
\* for every session whose latest activity was not None.
C11_ShutdownClearing ==
    mpc = "exited_ok" =>
        \A a \in Addrs :
            GotClose(a) => \A k \in LiveSessions : WrittenCleared(a, k)

\* C12: the end of a session handler, at whatever point, leaves the
\* normalizer task and main's publish loop running.
C12_FailureIsolation ==
    (\E s \in SessionIds : HandlerEnded(s)) =>
        /\ NormalizerAlive
        /\ ProcessAlive

\* C13: client_map holds no sender whose receiver has been dropped: every
\* registered address belongs to a subscriber handler that has not returned.
C13_SubscriberDeregistered ==
    \A a \in client_map : RxOpen(a)

\* C14: a failed decode is the last thing a session handler reads: the
\* handler has ended and no further message is decoded.
C14_DecodeErrorFatal ==
    \A s \in SessionIds :
        \A i \in 1 .. Len(inb[s]) :
            inb[s][i].kind = "DecodeErr" =>
                /\ i = Len(inb[s])
                /\ HandlerEnded(s)

\* C15: ipc_client_map has no entry for a session whose handler has ended.
C15_SessionDeregistered ==
    \A s \in SessionIds : HandlerEnded(s) => s \notin ipc_client_map

\* The ids given out so far: the ids with a handler, running or ended.
IdsHanded == { s \in SessionIds : hpc[s] # "none" }

\* C16: the ids registered in ipc_client_map and the ids handed to handlers
\* are the same, namely 0 .. SOCKET_ID - 1; the counter never decreases; and
\* every accept takes the counter's value, which no session has had, for
\* both the table and the handler and raises the counter by one, so ids are
\* unique and increase in accept order, whatever sessions have ended.
C16_SessionIdUnique ==
    /\ [](/\ ipc_client_map = 0 .. (SOCKET_ID - 1)
          /\ IdsHanded = 0 .. (SOCKET_ID - 1))
    /\ [][/\ SOCKET_ID' >= SOCKET_ID
          /\ \A s \in SessionIds :
                (hpc[s] = "none" /\ hpc'[s] # "none") =>
                    /\ s = SOCKET_ID
                    /\ SOCKET_ID' = s + 1
                    /\ s \notin ipc_client_map
                    /\ ipc_client_map' = ipc_client_map \cup {s}
          /\ \A s \in SessionIds : hpc[s] # "none" => hpc'[s] # "none"]_vars

\* C16 witness: a second session was accepted after the first had ended.
C16_Witness ==
    /\ SOCKET_ID = 2
    /\ HandlerEnded(0)
    /\ hpc[1] = "select"
    /\ inb[1] = <<>>
    /\ ipc_client_map = {0, 1}

\* The candidate indices that do not answer address-in-use.
NotInUse == { i \in BindIndices : bind_env[i] # "AddrInUse" }

\* What C17 expects of try_bind: the lowest index not in use decides; with
\* none the candidates are exhausted.
ExpectedBind ==
    IF NotInUse = {} THEN [res |-> "exhausted", i |-> BindCandidates]
    ELSE LET i == CHOOSE x \in NotInUse : \A y \in NotInUse : x <= y IN
         [res |-> IF bind_env[i] = "Ok" THEN "bound" ELSE "fatal", i |-> i]

\* C17: try_bind never tries an index above the lowest one that does not
\* answer address-in-use; it ends bound at that index when the bind there
\* succeeds, with the error of that index when it fails otherwise, and with
\* the exhaustion error when all ten indices answer address-in-use.
C17_BindProbing ==
    /\ bind_i <= ExpectedBind.i
    /\ bind_res # "probing" =>
          /\ bind_res = ExpectedBind.res
          /\ bind_i = ExpectedBind.i

\* C17 witness: indices 0 to 2 in use and 3 free: bound at index 3, with a
\* failing candidate above it left untried.
C17_Witness ==
    /\ \A i \in 0 .. 2 : bind_env[i] = "AddrInUse"
    /\ bind_env[3] = "Ok"
    /\ bind_env[4] = "Other"
    /\ bind_res = "bound"
    /\ bind_i = 3

\* C18: the bytes try_encode returns carry the tag of the message's kind and
\* the length of their payload, and try_decode returns for them Ok of a
\* message equal to the encoded one.
C18_CodecRoundTrip ==
    enc_msg # None =>
        /\ buffer # None =>
              /\ buffer[1].tag = TagOf(enc_msg[1])
              /\ buffer[1].len = ByteLen(buffer[1].data)
        /\ dec_msg # None => dec_msg[1] = Ok(enc_msg[1])

\* C19: for a button list of length N, the activity to_full_message returns
\* has N buttons and N button_urls, the i-th being the label and the url of
\* the i-th input button.
C19_ButtonCorrespondence ==
    tfm_full # None =>
        LET bs == tfm_partial[1].buttons
            act == tfm_full[1].activity[1]
        IN /\ Len(act.buttons) = Len(bs)
           /\ Len(act.metadata.button_urls) = Len(bs)
           /\ \A i \in 1 .. Len(bs) :
                 /\ act.buttons[i] = bs[i].label
                 /\ act.metadata.button_urls[i] = bs[i].url

\* C19 witness: three buttons, the first and the last with different labels
\* and urls, have been normalized.
C19_Witness ==
    /\ tfm_full # None
    /\ Len(tfm_partial[1].buttons) = 3
    /\ tfm_partial[1].buttons[1].label # tfm_partial[1].buttons[3].label
    /\ tfm_partial[1].buttons[1].url # tfm_partial[1].buttons[3].url
    /\ Len(tfm_full[1].activity[1].buttons) = 3

\* C20: activity_map holds, under each session key published at least once,
\* the latest update published for that session, and an entry changes only
\* in the step that publishes an update for its own session.
C20_SnapshotLatest ==
    /\ [](\A k \in SessionKeys :
            LatestFor(k) # None => activity_map[k] = LatestFor(k))
    /\ [][\A k \in SessionKeys :
            activity_map'[k] # activity_map[k] =>
                /\ pubs' = Append(pubs, activity_map'[k][1])
                /\ activity_map'[k][1].msg.socket_id = k]_vars

\* C20 witness: a session's second update has replaced its first while
\* another session's entry has not been written.
C20_Witness ==
    /\ Len(pubs) = 2
    /\ pubs[1].msg.socket_id = "0"
    /\ pubs[2].msg.socket_id = "0"
    /\ pubs[1].msg.activity # pubs[2].msg.activity
    /\ activity_map["0"] = Some(pubs[2])
    /\ activity_map["1"] = None

\* The events of session s the normalizer task has taken from the event
\* channel: those delivered and no longer in the channel.
Consumed(s) ==
    SubSeq(sent[s], 1,
           Len(sent[s]) - Cardinality({ i \in 1 .. Len(msgq) : msgq[i].sid = s }))

\* C21: once the normalizer task has taken a Frame without an activity
\* payload (args absent) sent by a session after its handshake, an activity
\* message with activity None exists for that session: it is being sent by
\* the normalizer, is in the activity channel or has been published.
C21_AbsentPayloadClears ==
    NormalizerAlive =>
        \A s \in SessionIds :
            (\E i \in 1 .. Len(Consumed(s)) :
                IsFrame(Consumed(s)[i]) /\ Consumed(s)[i].args = None) =>
                \E m \in ActivityMessages :
                    m.socket_id = ToString(s) /\ m.activity = None

\* C22: the payload of every Close frame try_encode returns has as its code
\* member the integer of the close reason (1000 Normal, 4000
\* InvalidClientID, 4004 InvalidVersion), and a Close payload a client wrote
\* with one of the integer codes is decoded to the close reason of that
\* integer.
C22_CloseCodesIntegers ==
    /\ (enc_msg # None /\ buffer # None /\ IsCloseMsg(enc_msg[1])) =>
          LET c == Field(buffer[1].data, "code") IN
          /\ c # None
          /\ c[1].t = "num"
          /\ c[1].n = CodeNumber(enc_msg[1].code)
    /\ (enc_msg = None /\ dec_msg # None) =>
          \E c \in CloseCodeNames :
              /\ Field(buffer[1].data, "code")[1].n = CodeNumber(c)
              /\ dec_msg[1] = Ok(Close(c))

IsPing(m) == m.kind = "Ping"
IsPong(m) == m.kind = "Pong"
NotPong(m) == m.kind # "Pong"

\* The Pong frames C23 expects for the Pings among the messages sq.
RECURSIVE PongsFor(_)
PongsFor(sq) ==
    IF sq = <<>> THEN <<>>
    ELSE IF IsPing(Head(sq)) THEN <<Pong(Head(sq).data)>> \o PongsFor(Tail(sq))
         ELSE PongsFor(Tail(sq))

\* C23: on every session, handshake done or not, the Pong frames written
\* are, in order, one per received Ping with that Ping's payload; every
\* received Ping is handed upward, in order (delivered to the event channel
\* or waiting in tx.send); and a received Pong adds no frame: the frames
\* written are at most the received messages other than Pongs plus the
\* relayed READY commands.
C23_PingPong ==
    \A s \in SessionIds :
        /\ SelectSeq(out[s], IsPong) = PongsFor(inb[s])
        /\ SelectSeq(Upward(s), IsPing) = SelectSeq(inb[s], IsPing)
        /\ Len(out[s]) <= Count(inb[s], NotPong) + Count(out[s], IsReady)

\* C24: a Close received on a session, handshake done or not, is the last
\* message its handler handles and the last event it hands upward
\* (delivered to the event channel, or waiting in tx.send while the handler
\* is still in that send), and the handler then ends with Ok: it never ends
\* with an error after reading a Close.
C24_CloseFrame ==
    \A s \in SessionIds :
        \A i \in 1 .. Len(inb[s]) :
            IsCloseMsg(inb[s][i]) =>
                /\ i = Len(inb[s])
                /\ hpc[s] \in {"fwd", "closed_ok"}
                /\ hpc[s] = "fwd" => pending[s] = Some(inb[s][i])
                /\ hpc[s] = "closed_ok" =>
                      /\ sent[s] # <<>>
                      /\ Last(sent[s]) = inb[s][i]
                      /\ pending[s] = None

\* C27: no update is written twice to the same subscriber, catch-up replay
\* and live delivery taken together.
C27_AtMostOnce ==
    \A a \in Addrs :
        \A i, j \in 1 .. Len(wire[a]) :
            i < j => wire[a][i].upd # wire[a][j].upd

\* A frame written for a relayed command: a DISPATCH frame or the Normal
\* close frame (the handler itself writes neither).
IsRelayed(m) ==
    \/ m.kind = "Frame" /\ m.cmd = "DISPATCH"
    \/ m.kind = "Close" /\ m.code = Normal

\* The frames fs up to and including the first Normal close frame.
UntilClose(fs) ==
    LET I == { i \in 1 .. Len(fs) : fs[i] = Close(Normal) } IN
    IF I = {} THEN fs
    ELSE SubSeq(fs, 1, CHOOSE i \in I : \A j \in I : i <= j)

\* The frames the commands sq put on the wire.
Encoded(sq) == [i \in 1 .. Len(sq) |-> CommandEncode(sq[i])]

\* The frames written to session s for commands, and the frames C25 expects:
\* those of the commands IpcServer::send accepted, up to the first Close.
Range(sq) == { sq[i] : i \in 1 .. Len(sq) }

RelayedWritten(s) == SelectSeq(out[s], IsRelayed)
RelayedExpected(s) == UntilClose(Encoded(relayed[s]))

\* C25: the frames written to a session for commands are, in order, a
\* prefix of the frames of the commands IpcServer::send accepted for it, up
\* to the first Close; while the handler runs, or once a Close command has
\* ended it, the frames written followed by those of the commands still in
\* the channel are all of them, so none is lost; and a written Normal close
\* frame is the last frame written, with the handler ended with Ok.
C25_RelayInOrder ==
    \A s \in SessionIds :
        /\ \E n \in 0 .. Len(RelayedExpected(s)) :
              RelayedWritten(s) = SubSeq(RelayedExpected(s), 1, n)
        /\ (HandlerRunning(s) \/ Close(Normal) \in Range(out[s])) =>
              UntilClose(RelayedWritten(s)
                         \o Encoded(SelectSeq(cmdq[s], Held)))
                  = RelayedExpected(s)
        /\ \A i \in 1 .. Len(out[s]) :
              out[s][i] = Close(Normal) =>
                  i = Len(out[s]) /\ hpc[s] = "closed_ok"

\* C26: the inbound direction does not keep a command from being written:
\* a handler that is forwarding an inbound event upward comes back to its
\* command channel, so no handler has ended through the failure of that
\* forward (the Err of tx.send) with a command left unwritten in its channel.
C26_OutboundNotBlocked ==
    \A s \in SessionIds :
        hpc[s] = "err_chan" => SelectSeq(cmdq[s], Held) = <<>>

\* C29: a handler that goes on reading has dropped no header it read:
\* whenever a command was serviced while an inbound message was partly read
\* (header consumed, payload not yet read) and the command did not end the
\* handler, the bytes read were kept, so that the message is still decoded
\* and the next read starts at a header.
C29_FramingSurvives ==
    \A s \in SessionIds : HandlerRunning(s) => ~discarded[s]

HasArgs(m) == m.kind = "Frame" /\ m.args # None

\* The pids of the activity frames session s has received, in order.
FramePids(s) ==
    [i \in 1 .. Len(SelectSeq(inb[s], HasArgs)) |->
        SelectSeq(inb[s], HasArgs)[i].args[1].pid]

\* The pids of the live updates of session s written to subscriber a, in
\* order.
LivePids(a, s) ==
    LET I == { i \in 1 .. Len(wire[a]) :
                 IsLive(wire[a][i])
                 /\ wire[a][i].upd.msg.socket_id = ToString(s) }
        F[i \in 0 .. Len(wire[a])] ==
            IF i = 0 THEN <<>>
            ELSE IF i \in I THEN Append(F[i - 1], wire[a][i].upd.msg.pid)
            ELSE F[i - 1]
    IN F[Len(wire[a])]

\* C28: for every subscriber and every session, the live updates of the
\* session written to the subscriber are, in order and without a gap, a run
\* of the activity frames the session's handler received: no two of them are
\* written in another order than their frames were received.
C28_EndToEndOrder ==
    \A a \in Addrs, s \in SessionIds :
        \E i \in 1 .. Len(FramePids(s)) + 1, j \in 0 .. Len(FramePids(s)) :
            LivePids(a, s) = SubSeq(FramePids(s), i, j)

\* C28 witness: a session sent the frame with pid 43 and then the one with
\* pid 42, and a subscriber has been written both as live updates, in that
\* order.
C28_Witness ==
    \E a \in Addrs, s \in SessionIds :
        /\ FramePids(s) = <<43, 42>>
        /\ LivePids(a, s) = <<43, 42>>

\* ------------------------------------------------------------------- C30

\* The subscriber whose handler holds the activity_map lock.
Holder == amlock[1]

\* The lock is held only by a subscriber inside its catch-up or Close loop
\* with entries left to write, and that subscriber's next write can happen:
\* it waits for no lock and no channel.
LockHeld ==
    amlock # None =>
        /\ spc[Holder] \in {"catchup", "closing"}
        /\ todo[Holder] # {}
        /\ ProcessAlive =>
               (ENABLED CatchUpStep(Holder) \/ ENABLED CloseStep(Holder))

\* main waits only at the insert, and only for the holder of the lock.
MainServed ==
    /\ mpc = "insert" => (ENABLED PubInsert \/ amlock # None)
    /\ mpc = "fanout" => ENABLED PubFanout
    /\ mpc = "shutdown" => ENABLED MainReturn

\* The normalizer waits at its send only for main.
NormServed ==
    (ProcessAlive /\ npc = "send") =>
        \/ ENABLED NormSend
        \/ ENABLED MainRecv
        \/ mpc \in {"insert", "fanout", "shutdown"}

\* A session handler waits at its forward only for the normalizer.
HandlersServed ==
    \A s \in SessionIds : (ProcessAlive /\ hpc[s] = "fwd") =>
        \/ ENABLED Forward(s)
        \/ ENABLED NormRecv
        \/ npc = "send"

\* A subscriber waits for the lock only while another subscriber holds it.
SubscribersServed ==
    \A a \in Addrs :
        /\ (ProcessAlive /\ spc[a] = "lockwait") =>
               (ENABLED CatchUpLock(a) \/ (amlock # None /\ Holder # a))
        /\ (ProcessAlive /\ spc[a] = "live" /\ queue[a] # <<>>) =>
               \/ ENABLED LiveDeliver(a)
               \/ ENABLED CloseRecv(a)
               \/ (amlock # None /\ Holder # a)

\* While the lock is held, a step either is another task's and leaves the
\* holder where it is, or is a write of the holder, which leaves it fewer
\* entries to write or releases the lock.
LockStep ==
    amlock # None =>
        \/ /\ amlock' = amlock
           /\ todo'[Holder] = todo[Holder]
           /\ spc'[Holder] = spc[Holder]
        \/ /\ amlock' = amlock
           /\ todo'[Holder] \subseteq todo[Holder]
           /\ todo'[Holder] # todo[Holder]
        \/ /\ amlock' = None
           /\ spc'[Holder] \notin {"catchup", "closing"}

\* C30: deadlock freedom.  The waits of the tasks form a chain and no cycle:
\* a session handler waits for the normalizer, the normalizer for main, main
\* for the subscriber holding the activity_map lock, and that subscriber for
\* no task; the holder of the one lock held across an await never waits for
\* a lock, every write of the holder brings the release nearer, and once
\* the lock is free a waiting publish can take it.
C30_DeadlockFree ==
    /\ [](LockHeld /\ MainServed /\ NormServed /\ HandlersServed
            /\ SubscribersServed)
    /\ [][LockStep]_vars

\* A publish and a second subscriber both wait for the activity_map lock
\* while a subscriber in its catch-up loop holds it with entries to write.
C30_Witness ==
    /\ amlock # None
    /\ spc[Holder] = "catchup"
    /\ todo[Holder] # {}
    /\ mpc = "insert"
    /\ \E a \in Addrs : a # Holder /\ spc[a] = "lockwait"

====
